---- MODULE Spec2Model ----
(***************************************************************************)
(* Expression classification of emoji-smile-mirror (src/app.js): the       *)
(* module-level baseline, calibrate, pickEmoji, blendMap and the event     *)
(* handlers that call them.                                                *)
(*                                                                         *)
(* Numbers.  Blendshape scores are written in hundredths (0.36 is 36) and  *)
(* expression scores in thousandths (0.25 is 250), so that the weights 0.9 *)
(* and 0.4 of the surprise score are the integers 9 and 4 and every        *)
(* comparison of the code is an exact integer comparison.                  *)
(***************************************************************************)
EXTENDS Integers, Sequences, FiniteSets, TLC

VARIABLES
    baseline,     \* app.js:22   let baseline = null
    landmarker,   \* app.js:21   let landmarker = null   (FALSE: null, TRUE: created)
    video,        \* app.js:19   let video = null        (FALSE: null, TRUE: playing)
    running,      \* app.js:20   let running = false
    startPc,      \* position of the async btnStart.onclick handler
    pc,           \* the call or handler in progress, "idle" when none is
    blend,        \* the argument `blend` of the call in progress
    det,          \* the value of result?.faceBlendshapes?.[0] in the handler in progress
    emoji,        \* the glyph returned by the last completed pickEmoji call
    lastCal,      \* history: the last non-null argument calibrate(blend) received
    lastOp,       \* history: what the last completed call or handler did
    lastClick     \* history: what the last btnCalibrate click that calibrated saw

vars == <<baseline, landmarker, video, running, startPc, pc, blend, det,
          emoji, lastCal, lastOp, lastClick>>

(***************************************************************************)
(* Values                                                                  *)
(***************************************************************************)
\* JavaScript null / undefined: the falsy argument of `if (!blend)`.
NULL == [null |-> TRUE]

\* No value: no call in progress, nothing returned yet.
NONE == [none |-> TRUE]

\* No glyph: pickEmoji has not returned yet.
NoGlyph == "none"

\* The object literal {}.
EmptyObject == [k \in {} |-> 0]

\* The blendshape channels pickEmoji reads.
Channels ==
    {"mouthSmileLeft", "mouthSmileRight", "jawOpen", "mouthPucker",
     "mouthFrownLeft", "mouthFrownRight", "cheekPuffLeft", "cheekPuffRight",
     "tongueOut"}

\* The category names the landmarker reports: the channels and one of the
\* blendshapes pickEmoji never reads.
CategoryNames == Channels \cup {"browDownLeft"}

\* Scores a channel is given, in hundredths: 0.20 is the frown threshold
\* exactly, 0.36 and 0.40 make smile (0.36) tie with surprise (0.9 * 0.40).
Scores == {20, 36, 40}

\* Most channels a classified frame reports.
MaxKeys == 2

\* Scores a channel of a calibration snapshot is given, in hundredths.
BaseScores == {20, 36}

\* Most channels a calibration snapshot reports.
MaxBaseKeys == 1

\* Most categories the landmarker reports for one face.
MaxCats == 1

\* The objects with at most n channels.
Vectors(n, values) ==
    UNION {[S -> values] : S \in {T \in SUBSET CategoryNames : Cardinality(T) <= n}}

FrameVectors == Vectors(MaxKeys, Scores)
BaseVectors == Vectors(MaxBaseKeys, BaseScores)

\* The sequences over S of length at most n.
SeqUpTo(S, n) == UNION {[1..m -> S] : m \in 0..n}

\* What result?.faceBlendshapes?.[0] can be: undefined when no face is
\* seen, or the blendshapes of the face with their categories.
Detections ==
    {NULL} \cup
    [categories : SeqUpTo([categoryName : CategoryNames, score : BaseScores], MaxCats)]

(***************************************************************************)
(* Constant tables                                                         *)
(***************************************************************************)
\* The glyphs, named by their code points.
EMOJI_SET ==
    [neutral  |-> "U+1F610",
     smile    |-> "U+1F642",
     surprise |-> "U+1F62E",
     frown    |-> "U+1F621",
     cheeky   |-> "U+1F61C"]

EMOTION_THRESHOLDS ==
    [smile |-> 250, surprise |-> 280, frown |-> 200, cheeky |-> 220]

\* let bestScore = 0.15
InitialBestScore == 150

(***************************************************************************)
(* pickEmoji                                                               *)
(***************************************************************************)
Max(a, b) == IF a >= b THEN a ELSE b

\* obj[key] ?? 0
Lookup(obj, key) == IF key \in DOMAIN obj THEN obj[key] ELSE 0

\* const b = baseline || {}
BaselineOrEmpty(base) == IF base = NULL THEN EmptyObject ELSE base

\* const get = (key) => (blend[key] ?? 0) - (b[key] ?? 0)
get(bl, b, key) == Lookup(bl, key) - Lookup(b, key)

\* const expressionScores = {...}
expressionScores(bl, b) ==
    [smile    |-> 10 * Max(get(bl, b, "mouthSmileLeft"), get(bl, b, "mouthSmileRight")),
     surprise |-> 9 * get(bl, b, "jawOpen") + 4 * get(bl, b, "mouthPucker"),
     frown    |-> 10 * Max(get(bl, b, "mouthFrownLeft"), get(bl, b, "mouthFrownRight")),
     cheeky   |-> 10 * (Max(get(bl, b, "cheekPuffLeft"), get(bl, b, "cheekPuffRight"))
                        + get(bl, b, "tongueOut"))]

\* Object.entries(expressionScores): the keys in insertion order.
ExpressionOrder == <<"smile", "surprise", "frown", "cheeky">>

\* Variant: the threshold itself qualifies (score >= threshold).
Better_AtThreshold(score, threshold, bestScore) ==
    score >= threshold /\ score > bestScore

\* Variant: an equal score replaces the best so far (score >= bestScore).
Better_TieLater(score, threshold, bestScore) ==
    score > threshold /\ score >= bestScore

\* if (score > threshold && score > bestScore)
Better(score, threshold, bestScore) == score > threshold /\ score > bestScore

\* The loop over Object.entries(expressionScores) from entry i on, with the
\* running bestExpression and bestScore.
RECURSIVE SelectLoop(_, _, _, _)
SelectLoop(scores, i, bestExpression, bestScore) ==
    IF i > Len(ExpressionOrder) THEN bestExpression
    ELSE LET expression == ExpressionOrder[i]
             score == scores[expression]
         IN  IF Better(score, EMOTION_THRESHOLDS[expression], bestScore)
             THEN SelectLoop(scores, i + 1, expression, score)
             ELSE SelectLoop(scores, i + 1, bestExpression, bestScore)

\* Variant: no guard for a null blend; blend[key] then throws.
pickEmoji_NoNullGuard(bl, base) ==
    IF bl = NULL THEN "TypeError"
    ELSE EMOJI_SET[SelectLoop(expressionScores(bl, BaselineOrEmpty(base)), 1,
                              "neutral", InitialBestScore)]

\* Variant: nothing is classified before the first calibration.
pickEmoji_NeedsBaseline(bl, base) ==
    IF bl = NULL \/ base = NULL THEN EMOJI_SET.neutral
    ELSE EMOJI_SET[SelectLoop(expressionScores(bl, base), 1,
                              "neutral", InitialBestScore)]

\* Variant: bestExpression starts as null, so EMOJI_SET[bestExpression] is
\* undefined when no expression qualifies.
pickEmoji_NoDefault(bl, base) ==
    IF bl = NULL THEN EMOJI_SET.neutral
    ELSE LET best == SelectLoop(expressionScores(bl, BaselineOrEmpty(base)), 1,
                                "null", InitialBestScore)
         IN  IF best \in DOMAIN EMOJI_SET THEN EMOJI_SET[best] ELSE "undefined"

\* pickEmoji(blend), reading the module-level baseline `base`.
pickEmoji(bl, base) ==
    IF bl = NULL THEN EMOJI_SET.neutral
    ELSE EMOJI_SET[SelectLoop(expressionScores(bl, BaselineOrEmpty(base)), 1,
                              "neutral", InitialBestScore)]

\* Variant: baseline = { ...baseline, ...blend } keeps the old keys.
calibrate_Merge(bl, base) ==
    IF bl = NULL THEN base
    ELSE LET old == IF base = NULL THEN EmptyObject ELSE base
         IN  [k \in DOMAIN old \cup DOMAIN bl |->
                 IF k \in DOMAIN bl THEN bl[k] ELSE old[k]]

\* Variant: a null blend clears the baseline.
calibrate_NullClears(bl, base) ==
    IF bl = NULL THEN NULL
    ELSE [k \in DOMAIN bl |-> bl[k]]

\* Variant: a calibration is averaged with the baseline it finds.
calibrate_Smoothed(bl, base) ==
    IF bl = NULL THEN base
    ELSE IF base = NULL THEN [k \in DOMAIN bl |-> bl[k]]
    ELSE [k \in DOMAIN bl |->
             (bl[k] + (IF k \in DOMAIN base THEN base[k] ELSE 0)) \div 2]

\* calibrate(blend): the baseline afterwards.  { ...blend } copies every
\* own property of blend into a fresh object.
calibrate(bl, base) ==
    IF bl = NULL THEN base
    ELSE [k \in DOMAIN bl |-> bl[k]]

\* Variant: no face gives null instead of {}.
blendMap_NullWhenNoFace(blendshapes) ==
    IF blendshapes = NULL THEN NULL
    ELSE LET cats == blendshapes.categories
             names == {cats[i].categoryName : i \in DOMAIN cats}
             last(n) == CHOOSE i \in DOMAIN cats :
                            /\ cats[i].categoryName = n
                            /\ \A j \in DOMAIN cats : cats[j].categoryName = n => j <= i
         IN  [n \in names |-> cats[last(n)].score]

\* blendMap(blendshapes): blendshapes is NULL (no face) or has the sequence
\* categories of [categoryName, score]; a later entry of the same name
\* overwrites an earlier one.
blendMap(blendshapes) ==
    LET cats == IF blendshapes = NULL THEN << >> ELSE blendshapes.categories
        names == {cats[i].categoryName : i \in DOMAIN cats}
        last(n) == CHOOSE i \in DOMAIN cats :
                       /\ cats[i].categoryName = n
                       /\ \A j \in DOMAIN cats : cats[j].categoryName = n => j <= i
    IN  [n \in names |-> cats[last(n)].score]

(***************************************************************************)
(* The classifier alone: pickEmoji applied to every frame and baseline.    *)
(***************************************************************************)
InitClassify ==
    /\ baseline \in BaseVectors \cup {NULL}
    /\ blend \in FrameVectors \cup {NULL}
    /\ pc = "pickEmoji"
    /\ emoji = NoGlyph
    /\ landmarker = FALSE /\ video = FALSE /\ running = FALSE
    /\ startPc = "idle" /\ det = NONE
    /\ lastCal = baseline /\ lastOp = "none" /\ lastClick = "none"

\* pickEmoji(blend) runs; the argument stays on record with the result.
Classify ==
    /\ pc = "pickEmoji"
    /\ emoji' = pickEmoji(blend, baseline)
    /\ pc' = "classified"
    /\ lastOp' = "pickEmoji"
    /\ UNCHANGED <<baseline, landmarker, video, running, startPc, blend, det, lastCal,
                   lastClick>>

NextClassify == Classify

SpecClassify == InitClassify /\ [][NextClassify]_vars

(***************************************************************************)
(* The two call points, called in any order with any argument.  A call is  *)
(* entered with its argument and then runs to completion.                  *)
(***************************************************************************)
Init ==
    /\ baseline = NULL
    /\ landmarker = FALSE /\ video = FALSE /\ running = FALSE
    /\ startPc = "idle" /\ det = NONE
    /\ pc = "idle" /\ blend = NONE /\ emoji = NoGlyph
    /\ lastCal = NULL /\ lastOp = "none" /\ lastClick = "none"

CallArguments == BaseVectors \cup {NULL}

\* calibrate(v) is entered.
CallCalibrate ==
    /\ pc = "idle"
    /\ \E v \in CallArguments : blend' = v
    /\ pc' = "calibrate"
    /\ UNCHANGED <<baseline, landmarker, video, running, startPc, det, emoji,
                   lastCal, lastOp, lastClick>>

\* pickEmoji(v) is entered.
CallPickEmoji ==
    /\ pc = "idle"
    /\ \E v \in CallArguments : blend' = v
    /\ pc' = "pickEmoji"
    /\ UNCHANGED <<baseline, landmarker, video, running, startPc, det, emoji,
                   lastCal, lastOp, lastClick>>

\* What a completed calibrate(bl) did, given the baseline it found and the
\* call completed before it.
CalibrateKind(bl, base, before) ==
    IF bl = NULL THEN "calNull"
    ELSE IF before \in {"calFirst", "calSame", "calReplace", "calOther"} /\ bl = lastCal
         THEN "calSame"
    ELSE IF base = NULL THEN "calFirst"
    ELSE IF DOMAIN base \ DOMAIN bl # {} THEN "calReplace"
    ELSE "calOther"

\* The body of calibrate(blend).
RunCalibrate ==
    /\ pc = "calibrate"
    /\ baseline' = calibrate(blend, baseline)
    /\ lastCal' = IF blend = NULL THEN lastCal ELSE blend
    /\ lastOp' = CalibrateKind(blend, baseline, lastOp)
    /\ pc' = "idle"
    /\ blend' = NONE
    /\ UNCHANGED <<landmarker, video, running, startPc, det, emoji, lastClick>>

\* Variant: the first classified frame becomes the baseline.
RunPickEmoji_AutoCalibrate ==
    /\ pc = "pickEmoji"
    /\ emoji' = pickEmoji(blend, baseline)
    /\ baseline' = IF baseline = NULL /\ blend # NULL THEN blend ELSE baseline
    /\ lastOp' = "pickEmoji"
    /\ pc' = "idle"
    /\ blend' = NONE
    /\ UNCHANGED <<landmarker, video, running, startPc, det, lastCal, lastClick>>

\* The body of pickEmoji(blend).
RunPickEmoji ==
    /\ pc = "pickEmoji"
    /\ emoji' = pickEmoji(blend, baseline)
    /\ lastOp' = "pickEmoji"
    /\ pc' = "idle"
    /\ blend' = NONE
    /\ UNCHANGED <<baseline, landmarker, video, running, startPc, det, lastCal,
                   lastClick>>

Next == CallCalibrate \/ CallPickEmoji \/ RunCalibrate \/ RunPickEmoji

Spec == Init /\ [][Next]_vars

(***************************************************************************)
(* The application: the handlers of app.js, each run to completion.  A     *)
(* handler that asks the landmarker for a detection is entered when the    *)
(* detection arrives and then runs the rest of its body.                   *)
(***************************************************************************)
\* btnStart.onclick up to its first await: btnStart.disabled = true.
StartClick ==
    /\ pc = "idle" /\ startPc = "idle"
    /\ startPc' = "setupModel"
    /\ lastOp' = "startClick"
    /\ UNCHANGED <<baseline, landmarker, video, running, pc, blend, det, emoji,
                   lastCal, lastClick>>

\* await setupModel() resolves.
SetupModelDone ==
    /\ pc = "idle" /\ startPc = "setupModel"
    /\ landmarker' = TRUE
    /\ startPc' = "setupCamera"
    /\ lastOp' = "setupModel"
    /\ UNCHANGED <<baseline, video, running, pc, blend, det, emoji, lastCal, lastClick>>

\* await setupModel() or await setupCamera() rejects: the catch block
\* enables btnStart again.
SetupFail ==
    /\ pc = "idle" /\ startPc \in {"setupModel", "setupCamera"}
    /\ startPc' = "idle"
    /\ lastOp' = "setupFail"
    /\ UNCHANGED <<baseline, landmarker, video, running, pc, blend, det, emoji,
                   lastCal, lastClick>>

\* await setupCamera() resolves: running = true and the loop is started.
SetupCameraDone ==
    /\ pc = "idle" /\ startPc = "setupCamera"
    /\ video' = TRUE
    /\ running' = TRUE
    /\ startPc' = "started"
    /\ lastOp' = "setupCamera"
    /\ UNCHANGED <<baseline, landmarker, pc, blend, det, emoji, lastCal, lastClick>>

\* btnCalibrate.onclick: if (!landmarker || !video) return.
ClickIgnored ==
    /\ pc = "idle"
    /\ ~landmarker \/ ~video
    /\ lastOp' = "clickIgnored"
    /\ UNCHANGED <<baseline, landmarker, video, running, startPc, pc, blend, det,
                   emoji, lastCal, lastClick>>

\* btnCalibrate.onclick: landmarker.detectForVideo(video, nowMs()) returns.
ClickDetect ==
    /\ pc = "idle"
    /\ landmarker /\ video
    /\ \E d \in Detections : det' = d
    /\ pc' = "click"
    /\ UNCHANGED <<baseline, landmarker, video, running, startPc, blend, emoji,
                   lastCal, lastOp, lastClick>>

\* What a click that saw detection d did to the baseline `base`.
ClickKind(d, base) ==
    IF d # NULL THEN "face"
    ELSE IF base # NULL /\ DOMAIN base # {} THEN "noFaceReplaced"
    ELSE "noFace"

\* btnCalibrate.onclick: calibrate(blendMap(result?.faceBlendshapes?.[0])).
ClickCalibrate ==
    /\ pc = "click"
    /\ LET blendObj == blendMap(det)
       IN  /\ baseline' = calibrate(blendObj, baseline)
           /\ lastCal' = IF blendObj = NULL THEN lastCal ELSE blendObj
           /\ lastClick' = ClickKind(det, baseline)
    /\ lastOp' = "click"
    /\ det' = NONE
    /\ pc' = "idle"
    /\ UNCHANGED <<landmarker, video, running, startPc, blend, emoji>>

\* loop(): if (!running) return; landmarker.detectForVideo(video, timestamp)
\* returns.
LoopDetect ==
    /\ pc = "idle"
    /\ running /\ video /\ landmarker
    /\ \E d \in Detections : det' = d
    /\ pc' = "frame"
    /\ UNCHANGED <<baseline, landmarker, video, running, startPc, blend, emoji,
                   lastCal, lastOp, lastClick>>

\* loop(): drawEmoji(pickEmoji(blendMap(result?.faceBlendshapes?.[0]))).
LoopDraw ==
    /\ pc = "frame"
    /\ emoji' = pickEmoji(blendMap(det), baseline)
    /\ lastOp' = "frame"
    /\ det' = NONE
    /\ pc' = "idle"
    /\ UNCHANGED <<baseline, landmarker, video, running, startPc, blend, lastCal,
                   lastClick>>

NextApp ==
    \/ StartClick \/ SetupModelDone \/ SetupFail \/ SetupCameraDone
    \/ ClickIgnored \/ ClickDetect \/ ClickCalibrate
    \/ LoopDetect \/ LoopDraw

SpecApp == Init /\ [][NextApp]_vars

(***************************************************************************)
(* The claims.  The scores, thresholds and order below are written from    *)
(* the specification of the classifier, not from the definitions above.    *)
(***************************************************************************)
Categories == {"smile", "surprise", "frown", "cheeky"}

Glyphs == {EMOJI_SET[c] : c \in DOMAIN EMOJI_SET}

\* The category a glyph stands for.
CategoryOf(g) == CHOOSE c \in DOMAIN EMOJI_SET : EMOJI_SET[c] = g

\* current[key] - baseline[key], a missing key and a missing baseline as 0.
Delta(cur, base, key) ==
    (IF key \in DOMAIN cur THEN cur[key] ELSE 0)
    - (IF base # NULL /\ key \in DOMAIN base THEN base[key] ELSE 0)

\* score(c) of the classified frame against the baseline, in thousandths.
Score(cur, base) ==
    LET d(key) == Delta(cur, base, key)
        max(a, b) == IF a > b THEN a ELSE b
    IN  [smile    |-> 10 * max(d("mouthSmileLeft"), d("mouthSmileRight")),
         surprise |-> 9 * d("jawOpen") + 4 * d("mouthPucker"),
         frown    |-> 10 * max(d("mouthFrownLeft"), d("mouthFrownRight")),
         cheeky   |-> 10 * max(d("cheekPuffLeft"), d("cheekPuffRight"))
                      + 10 * d("tongueOut")]

Threshold == [smile |-> 250, surprise |-> 280, frown |-> 200, cheeky |-> 220]

Qualifies(cur, base, c) == Score(cur, base)[c] > Threshold[c]

\* The qualifying categories of the highest score.
Top(cur, base) ==
    {c \in Categories :
        /\ Qualifies(cur, base, c)
        /\ \A d \in Categories :
               Qualifies(cur, base, d) => Score(cur, base)[d] <= Score(cur, base)[c]}

FixedOrder == <<"smile", "surprise", "frown", "cheeky">>

\* The member of the non-empty set S that comes first in the fixed order.
FirstOf(S) ==
    FixedOrder[CHOOSE i \in 1..4 :
                   FixedOrder[i] \in S /\ \A j \in 1..(i - 1) : FixedOrder[j] \notin S]

\* C1: a non-neutral category is returned only if its score exceeds its
\* threshold and the floor 0.15 and no qualifying category scores strictly
\* higher; neutral is returned exactly when no category qualifies.
C1_Selection ==
    (pc = "classified" /\ blend # NULL) =>
        /\ emoji \in Glyphs
        /\ LET c == CategoryOf(emoji)
               sc == Score(blend, baseline)
           IN  /\ c # "neutral" =>
                      /\ sc[c] > Threshold[c]
                      /\ sc[c] > 150
                      /\ \A d \in Categories :
                             Qualifies(blend, baseline, d) => sc[d] <= sc[c]
               /\ c = "neutral" <=>
                      \A d \in Categories : ~Qualifies(blend, baseline, d)

\* A calibrated frame classified frown while surprise qualifies with less.
C1_Witness ==
    /\ pc = "classified" /\ blend # NULL
    /\ baseline # NULL /\ DOMAIN baseline # {}
    /\ emoji = EMOJI_SET.frown
    /\ Qualifies(blend, baseline, "surprise")
    /\ Score(blend, baseline).surprise < Score(blend, baseline).frown

C5_NullIsNeutral ==
    (pc = "classified" /\ blend = NULL) => emoji = EMOJI_SET.neutral

\* A null vector classified against a calibrated baseline.
C5_Witness ==
    /\ pc = "classified" /\ blend = NULL
    /\ baseline # NULL /\ DOMAIN baseline # {}
    /\ emoji = EMOJI_SET.neutral

\* A baseline in which every channel is 0.
ZeroVector == [k \in CategoryNames |-> 0]

\* C6: an uncalibrated classification returns what the classification
\* against the all-zero baseline returns.
C6_UncalibratedIsZero ==
    (pc = "classified" /\ baseline = NULL) => emoji = pickEmoji(blend, ZeroVector)

\* An uncalibrated frame classified cheeky.
C6_Witness ==
    /\ pc = "classified" /\ baseline = NULL /\ blend # NULL
    /\ emoji = EMOJI_SET.cheeky

\* C3: after calibrate(V) with a non-null V the baseline is V key for key,
\* and every classification until the next such call is made against V.
C3_ReplacedInFull ==
    /\ [](baseline = lastCal)
    /\ [][(pc = "pickEmoji" /\ pc' = "idle") => emoji' = pickEmoji(blend, lastCal)]_vars

\* A calibration replaced a baseline that had a key the new vector lacks.
C3_Witness ==
    /\ pc = "idle" /\ lastOp = "calReplace"
    /\ baseline # NULL /\ DOMAIN baseline # {}

\* C4: calibrate(null) leaves the baseline as it was.
C4_NullIsNoOp ==
    [][(pc = "calibrate" /\ blend = NULL) => (pc' = "idle" /\ baseline' = baseline)]_vars

\* calibrate(null) completed in a calibrated state.
C4_Witness ==
    /\ pc = "idle" /\ lastOp = "calNull"
    /\ baseline # NULL /\ DOMAIN baseline # {}

\* C7: only a calibration with a non-null vector writes the baseline; a
\* classification leaves it unchanged.
C7_OnlyCalibrateWrites ==
    [][/\ pc = "pickEmoji" => baseline' = baseline
       /\ baseline' # baseline => (pc = "calibrate" /\ blend # NULL)]_vars

\* A classification against a calibrated baseline completed, not neutral.
C7_Witness ==
    /\ pc = "idle" /\ lastOp = "pickEmoji"
    /\ baseline # NULL /\ DOMAIN baseline # {} /\ baseline = lastCal
    /\ emoji \in Glyphs \ {EMOJI_SET.neutral}

\* C8: every completed classification returned one of the five glyphs.
C8_ClosedSet ==
    /\ emoji # NoGlyph => emoji \in Glyphs
    /\ lastOp = "pickEmoji" => emoji \in Glyphs
    /\ pc = "pickEmoji" => ENABLED RunPickEmoji

\* A classification against an empty baseline returned neutral.
C8_Witness ==
    /\ pc = "idle" /\ lastOp = "pickEmoji"
    /\ baseline = EmptyObject
    /\ emoji = EMOJI_SET.neutral

NonNullCalibrations == {"calFirst", "calSame", "calReplace", "calOther"}

\* C9: calibrate(V) right after calibrate(V) leaves the baseline as the
\* first call left it.
C9_Idempotent ==
    [][(/\ pc = "calibrate" /\ blend # NULL
        /\ lastOp \in NonNullCalibrations /\ blend = lastCal)
       => (pc' = "idle" /\ baseline' = baseline)]_vars

\* calibrate(V) completed twice in succession with a non-empty V.
C9_Witness ==
    /\ pc = "idle" /\ lastOp = "calSame"
    /\ baseline # NULL /\ DOMAIN baseline # {}

NoFaceClicks == {"noFace", "noFaceReplaced"}

\* C10: a calibrate click that sees no face leaves an empty baseline, and
\* every frame until the next calibration is classified as it would be
\* with no baseline.
C10_NoFaceClick ==
    /\ [](lastClick \in NoFaceClicks => baseline = EmptyObject)
    /\ [][(lastClick \in NoFaceClicks /\ pc = "frame" /\ pc' = "idle")
           => emoji' = pickEmoji(blendMap(det), NULL)]_vars

\* After a no-face click replaced a calibrated baseline, a frame was
\* classified as an expression.
C10_Witness ==
    /\ pc = "idle" /\ lastClick = "noFaceReplaced" /\ lastOp = "frame"
    /\ baseline = EmptyObject
    /\ emoji \in Glyphs \ {EMOJI_SET.neutral}

====
